---- MODULE Spec2Model ----
(***************************************************************************)
(* A state-machine model of python-service/embedding_server.py: a FastAPI  *)
(* application that loads one sentence-embedding model at startup and      *)
(* serves GET /health, POST /embed and POST /embed_batch, with CORS         *)
(* middleware in front and SIGINT/SIGTERM handlers registered at import.    *)
(*                                                                         *)
(* The process is one Python interpreter with one asyncio event loop.      *)
(* All handlers are `async def` and call the model synchronously, so a     *)
(* handler occupies the loop from its start to its end.  The inference     *)
(* call is split into a start step and an end step so that signals and new *)
(* arrivals can be observed while it is in progress.                       *)
(***************************************************************************)
EXTENDS Integers, Sequences, FiniteSets, TLC

VARIABLES
    model,        \* the global `model`: "None" or "loaded"
    phase,        \* "imported", "loading", "serving", "exited"
    host,         \* "none", "uvicorn" (the __main__ block) or "direct" (app called without lifespan)
    sighandler,   \* Python-level handler in effect for SIGINT/SIGTERM
    should_exit,  \* the server's exit flag, set by the server's own signal handler
    captured,     \* the set of signals the server has captured while serving
    reqs,         \* the requests sent so far, each with its progress and response
    stdout,       \* the lines printed so far
    exitStatus,   \* "none" while running, else the process's exit status
    loads,        \* how many times load_model has been entered
    loadRaised    \* whether a load_model call has raised

vars == <<model, phase, host, sighandler, should_exit, captured, reqs,
          stdout, exitStatus, loads, loadRaised>>

----------------------------------------------------------------------------
(* Bounds of the model *)

MaxReq == 2

Dim == 2

----------------------------------------------------------------------------
(* Inputs *)

Texts == {"a", "b"}

\* The lists posted to /embed_batch: the empty list, one text, two texts in
\* both orders, and three texts with a repetition.
TextLists ==
    { <<>>, <<"a">>, <<"a", "b">>, <<"b", "a">>, <<"b", "a", "b">> }

Signals == {"SIGINT", "SIGTERM"}

\* An origin header value scheme://host:port, kept as its three parts; two
\* origins are the same string exactly when the three parts agree.
Origins ==
    { <<"http", "localhost", "3000">>,
      <<"http", "localhost", "*">>,
      <<"http", "evil.example", "3000">> }

\* Exceptions the inference call can raise (all subclasses of Exception).
Exceptions ==
    { [type |-> "RuntimeError", msg |-> "CUDA out of memory"],
      [type |-> "ValueError", msg |-> "bad input"] }

\* JSON bodies a client can post to /embed and /embed_batch.
EmbedBodies == {[text |-> t] : t \in Texts} \cup {[txt |-> "a"]}

BatchBodies == {[texts |-> ts] : ts \in TextLists} \cup {[text |-> "a"]}

NoBody == [none |-> TRUE]

Requests ==
    {[method |-> "GET", path |-> "/health", body |-> NoBody, origin |-> <<>>]}
    \cup {[method |-> "POST", path |-> "/embed", body |-> b, origin |-> <<>>] : b \in EmbedBodies}
    \cup {[method |-> "POST", path |-> "/embed_batch", body |-> b, origin |-> <<>>] : b \in BatchBodies}
    \cup {[method |-> "OPTIONS", path |-> "/embed", body |-> NoBody, origin |-> o] : o \in Origins}

NoResp == [status |-> 0, detail |-> "", body |-> NoBody, allow_origin |-> <<>>]

----------------------------------------------------------------------------
(* The embedding library and numpy, as far as the handlers use them *)

Code(t) == IF t = "a" THEN 1 ELSE 2

\* The vector the loaded model computes for one text: Dim numbers that
\* depend on the text alone.
TextVec(t) == [i \in 1..Dim |-> 10 * Code(t) + i]

\* model.encode(str): a one-dimensional array of Dim numbers.
encode_str(t) == [shape |-> <<Dim>>, data |-> TextVec(t)]

\* model.encode(list): a two-dimensional array, one row per text in input
\* order, stored row-major; an empty one-dimensional array for the empty list.
encode_list(ts) ==
    IF ts = <<>>
    THEN [shape |-> <<0>>, data |-> <<>>]
    ELSE [shape |-> <<Len(ts), Dim>>,
          data |-> [k \in 1..(Len(ts) * Dim) |->
                      TextVec(ts[((k - 1) \div Dim) + 1])[((k - 1) % Dim) + 1]]]

\* ndarray.tolist() of a one-dimensional array: its numbers as a plain list.
tolist(arr) == [i \in 1..arr.shape[1] |-> arr.data[i]]

\* A faulty iteration that stops one row early.
RowsDropLast(arr) ==
    IF arr.shape[1] = 0
    THEN <<>>
    ELSE [i \in 1..(arr.shape[1] - 1) |->
            [shape |-> <<arr.shape[2]>>,
             data |-> SubSeq(arr.data, (i - 1) * arr.shape[2] + 1, i * arr.shape[2])]]

\* `for emb in embeddings`: the rows of the array along its first axis.
Rows(arr) ==
    IF arr.shape[1] = 0
    THEN <<>>
    ELSE [i \in 1..arr.shape[1] |->
            [shape |-> <<arr.shape[2]>>,
             data |-> SubSeq(arr.data, (i - 1) * arr.shape[2] + 1, i * arr.shape[2])]]

\* str(e)
str(e) == e.msg

----------------------------------------------------------------------------
(* Request validation and CORS *)

\* TextInput: the body must carry the field text.
TextInput(body) == "text" \in DOMAIN body

\* TextListInput: the body must carry the field texts.
TextListInput(body) == "texts" \in DOMAIN body

\* allow_origins=["http://localhost:*"]
allow_origins == { <<"http", "localhost", "*">> }

allow_credentials == TRUE

\* The middleware allows an origin when the list holds "*" alone as an
\* entry or holds the origin itself, compared as whole strings.
is_allowed_origin(o) == <<"*">> \in allow_origins \/ o \in allow_origins

IsLocalhostOrigin(o) == o[1] = "http" /\ o[2] = "localhost"

----------------------------------------------------------------------------
(* Helpers on the request table *)

Ids == 1..Len(reqs)

\* No exception caught.
NoExc == [type |-> "", msg |-> ""]

\* A request as the process holds it: the request, how far its handling has
\* got, its response, the number of model.encode calls made for it, and the
\* exception its except clause caught.
Entry(r) ==
    [req |-> r, state |-> "pending", resp |-> NoResp, calls |-> 0, raised |-> NoExc]

Respond(id, r) == [reqs EXCEPT ![id].state = "done", ![id].resp = r]

Caught(id, e, r) ==
    [reqs EXCEPT ![id].state = "done", ![id].resp = r, ![id].raised = e]

Response(status, detail, body) ==
    [status |-> status, detail |-> detail, body |-> body, allow_origin |-> <<>>]

Running == {id \in Ids : reqs[id].state = "running"}

\* A faulty variant: handlers run on worker threads and never wait for the loop.
LoopFreeThreaded == TRUE

\* The event loop runs one handler at a time, and a handler that has entered
\* model.encode keeps the loop until the call ends.
LoopFree == Running = {}

IsPending(id) == id \in Ids /\ reqs[id].state = "pending"

Serving == phase = "serving"

----------------------------------------------------------------------------
(* Module import, startup and shutdown *)

\* The state once the module body has run up to the __main__ test: the app
\* and its middleware exist, model is None, and signal_handler is registered
\* for both signals.
Init ==
    /\ model = "None"
    /\ phase = "imported"
    /\ host = "none"
    /\ sighandler = "signal_handler"
    /\ should_exit = FALSE
    /\ captured = {}
    /\ reqs = <<>>
    /\ stdout = <<>>
    /\ exitStatus = "none"
    /\ loads = 0
    /\ loadRaised = FALSE

\* uvicorn.run(app, ...): the server installs its own handlers for SIGINT and
\* SIGTERM, then runs the startup event, which enters load_model.
uvicorn_run ==
    /\ phase = "imported"
    /\ host' = "uvicorn"
    /\ sighandler' = "server"
    /\ phase' = "loading"
    /\ loads' = loads + 1
    /\ UNCHANGED <<model, should_exit, captured, reqs, stdout, exitStatus, loadRaised>>

\* The app object is called by a host that does not run the startup event
\* (an in-process client, a server with lifespan off): requests are handled
\* with model still None and the import-time signal handlers in effect.
direct_host ==
    /\ phase = "imported"
    /\ host' = "direct"
    /\ phase' = "serving"
    /\ UNCHANGED <<model, sighandler, should_exit, captured, reqs, stdout,
                   exitStatus, loads, loadRaised>>

\* load_model returns: the handle is stored, the line is printed, and the
\* server starts serving.
load_model_return ==
    /\ phase = "loading"
    /\ model' = "loaded"
    /\ stdout' = Append(stdout, <<"Model loaded from", "model_path">>)
    /\ phase' = "serving"
    /\ UNCHANGED <<host, sighandler, should_exit, captured, reqs, exitStatus, loads, loadRaised>>

\* A faulty variant: the load failure is swallowed and the server serves anyway.
load_model_raise_caught ==
    /\ phase = "loading"
    /\ loadRaised' = TRUE
    /\ phase' = "serving"
    /\ UNCHANGED <<model, host, sighandler, should_exit, captured, reqs,
                   stdout, exitStatus, loads>>

\* SentenceTransformer(...) raises: nothing in load_model or startup_event
\* catches it, startup fails and the process ends without serving.
load_model_raise ==
    /\ phase = "loading"
    /\ loadRaised' = TRUE
    /\ phase' = "exited"
    /\ exitStatus' = "failure"
    /\ UNCHANGED <<model, host, sighandler, should_exit, captured, reqs,
                   stdout, loads>>

\* signal_handler(sig, frame), run when a signal arrives while it is the
\* handler in effect: print, then sys.exit(0).
signal_handler(sig) ==
    /\ phase # "exited"
    /\ sighandler = "signal_handler"
    /\ stdout' = Append(stdout, <<"Shutting down gracefully...">>)
    /\ phase' = "exited"
    /\ exitStatus' = "0"
    /\ UNCHANGED <<model, host, sighandler, should_exit, captured, reqs, loads, loadRaised>>

\* A signal arrives while the server's handler is in effect: the server
\* records it and sets its exit flag; nothing is printed and nothing exits.
handle_exit(sig) ==
    /\ phase # "exited"
    /\ sighandler = "server"
    /\ should_exit' = TRUE
    /\ captured' = captured \cup {sig}
    /\ UNCHANGED <<model, phase, host, sighandler, reqs, stdout, exitStatus, loads, loadRaised>>

\* The server's main loop sees the exit flag once the loop is free, stops
\* serving and returns from uvicorn.run.  Depending on the server's version
\* it either restores the import-time handlers and re-raises the captured
\* signal (signal_handler then prints and exits 0), or just returns and the
\* interpreter ends with status 0.
server_shutdown(restore) ==
    /\ phase = "serving"
    /\ host = "uvicorn"
    /\ should_exit
    /\ LoopFree
    /\ phase' = "exited"
    /\ exitStatus' = "0"
    /\ sighandler' = IF restore THEN "signal_handler" ELSE sighandler
    /\ stdout' = IF restore
                 THEN Append(stdout, <<"Shutting down gracefully...">>)
                 ELSE stdout
    /\ UNCHANGED <<model, host, should_exit, captured, reqs, loads,
                   loadRaised>>

----------------------------------------------------------------------------
(* Requests *)

lifecycle == <<model, phase, host, sighandler, should_exit, captured, stdout,
               exitStatus, loads, loadRaised>>

\* A client sends a request; it waits until the loop runs its handler.
Receive(r) ==
    /\ Serving
    /\ Len(reqs) < MaxReq
    /\ reqs' = Append(reqs, Entry(r))
    /\ UNCHANGED lifecycle

\* A CORS preflight is answered by the middleware without reaching a route:
\* 200 with the origin echoed when the origin is allowed, else 400.
preflight(id) ==
    /\ Serving /\ LoopFree /\ IsPending(id)
    /\ reqs[id].req.method = "OPTIONS"
    /\ reqs' = Respond(id,
          IF is_allowed_origin(reqs[id].req.origin)
          THEN [status |-> 200, detail |-> "OK", body |-> NoBody,
                allow_origin |-> reqs[id].req.origin]
          ELSE Response(400, "Disallowed CORS origin", NoBody))
    /\ UNCHANGED lifecycle

BodyValid(r) ==
    IF r.path = "/embed" THEN TextInput(r.body) ELSE TextListInput(r.body)

\* A faulty variant: the model check comes before the body is validated.
validate_after_model_check(id) ==
    /\ Serving /\ LoopFree /\ IsPending(id)
    /\ reqs[id].req.method = "POST"
    /\ ~BodyValid(reqs[id].req)
    /\ reqs' = Respond(id,
          IF model = "None"
          THEN Response(503, "Model not loaded", NoBody)
          ELSE Response(422, "field required", NoBody))
    /\ UNCHANGED lifecycle

\* The framework builds input_data from the body before it calls the route
\* function; a body without the required field is answered 422 and the
\* function is not called.
request_validation_error(id) ==
    /\ Serving /\ LoopFree /\ IsPending(id)
    /\ reqs[id].req.method = "POST"
    /\ ~BodyValid(reqs[id].req)
    /\ reqs' = Respond(id, Response(422, "field required", NoBody))
    /\ UNCHANGED lifecycle

\* A faulty variant: model_loaded is reported true whatever the model is.
health_check_always_true(id) ==
    /\ Serving /\ LoopFree /\ IsPending(id)
    /\ reqs[id].req.method = "GET"
    /\ reqs' = Respond(id, Response(200, "",
                  [status |-> "healthy", model_loaded |-> TRUE]))
    /\ UNCHANGED lifecycle

\* health_check()
health_check(id) ==
    /\ Serving /\ LoopFree /\ IsPending(id)
    /\ reqs[id].req.method = "GET"
    /\ reqs' = Respond(id, Response(200, "",
                  [status |-> "healthy", model_loaded |-> model # "None"]))
    /\ UNCHANGED lifecycle

EnterEncode(id) ==
    [reqs EXCEPT ![id].state = "running", ![id].calls = reqs[id].calls + 1]

\* A faulty variant: the model is not tested before model.encode is called.
embed_text_unchecked(id) ==
    /\ Serving /\ LoopFree /\ IsPending(id)
    /\ reqs[id].req.method = "POST" /\ reqs[id].req.path = "/embed"
    /\ BodyValid(reqs[id].req)
    /\ reqs' = EnterEncode(id)
    /\ UNCHANGED lifecycle

\* embed_text(input_data), up to its call of model.encode: 503 when model is
\* None, else the call is entered.
embed_text(id) ==
    /\ Serving /\ LoopFree /\ IsPending(id)
    /\ reqs[id].req.method = "POST" /\ reqs[id].req.path = "/embed"
    /\ BodyValid(reqs[id].req)
    /\ reqs' = IF model = "None"
               THEN Respond(id, Response(503, "Model not loaded", NoBody))
               ELSE EnterEncode(id)
    /\ UNCHANGED lifecycle

\* model.encode returns in embed_text: 200 with the vector as a list.
embed_text_return(id) ==
    /\ phase # "exited"
    /\ id \in Running /\ reqs[id].req.path = "/embed"
    /\ reqs' = Respond(id, Response(200, "",
                  [embedding |-> tolist(encode_str(reqs[id].req.body.text))]))
    /\ UNCHANGED lifecycle

\* A faulty variant: the exception's message is lost.
HTTPException500Generic(e) == Response(500, "Internal Server Error", NoBody)

\* raise HTTPException(status_code=500, detail=str(e))
HTTPException500(e) == Response(500, str(e), NoBody)

\* A faulty variant: a failed inference throws the model handle away.
embed_text_except_reset(id, e) ==
    /\ phase # "exited"
    /\ id \in Running /\ reqs[id].req.path = "/embed"
    /\ reqs' = Caught(id, e, HTTPException500(e))
    /\ model' = "None"
    /\ UNCHANGED <<phase, host, sighandler, should_exit, captured, stdout,
                   exitStatus, loads, loadRaised>>

\* model.encode raises in embed_text: the except clause answers 500.
embed_text_except(id, e) ==
    /\ phase # "exited"
    /\ id \in Running /\ reqs[id].req.path = "/embed"
    /\ reqs' = Caught(id, e, HTTPException500(e))
    /\ UNCHANGED lifecycle

\* embed_texts(input_data), up to its call of model.encode.
embed_texts(id) ==
    /\ Serving /\ LoopFree /\ IsPending(id)
    /\ reqs[id].req.method = "POST" /\ reqs[id].req.path = "/embed_batch"
    /\ BodyValid(reqs[id].req)
    /\ reqs' = IF model = "None"
               THEN Respond(id, Response(503, "Model not loaded", NoBody))
               ELSE EnterEncode(id)
    /\ UNCHANGED lifecycle

\* model.encode returns in embed_texts: 200 with one list per row.
embed_texts_return(id) ==
    /\ phase # "exited"
    /\ id \in Running /\ reqs[id].req.path = "/embed_batch"
    /\ reqs' = Respond(id, Response(200, "",
                  [embeddings |->
                     LET rows == Rows(encode_list(reqs[id].req.body.texts))
                     IN  [i \in 1..Len(rows) |-> tolist(rows[i])]]))
    /\ UNCHANGED lifecycle

\* model.encode raises in embed_texts: the except clause answers 500 and
\* nothing of the batch is returned.
embed_texts_except(id, e) ==
    /\ phase # "exited"
    /\ id \in Running /\ reqs[id].req.path = "/embed_batch"
    /\ reqs' = Caught(id, e, HTTPException500(e))
    /\ UNCHANGED lifecycle

----------------------------------------------------------------------------

Next ==
    \/ uvicorn_run
    \/ direct_host
    \/ load_model_return
    \/ load_model_raise
    \/ \E sig \in Signals : signal_handler(sig)
    \/ \E sig \in Signals : handle_exit(sig)
    \/ \E restore \in BOOLEAN : server_shutdown(restore)
    \/ \E r \in Requests : Receive(r)
    \/ \E id \in 1..MaxReq : preflight(id)
    \/ \E id \in 1..MaxReq : request_validation_error(id)
    \/ \E id \in 1..MaxReq : health_check(id)
    \/ \E id \in 1..MaxReq : embed_text(id)
    \/ \E id \in 1..MaxReq : embed_text_return(id)
    \/ \E id \in 1..MaxReq, e \in Exceptions : embed_text_except(id, e)
    \/ \E id \in 1..MaxReq : embed_texts(id)
    \/ \E id \in 1..MaxReq : embed_texts_return(id)
    \/ \E id \in 1..MaxReq, e \in Exceptions : embed_texts_except(id, e)

Spec == Init /\ [][Next]_vars

----------------------------------------------------------------------------
(* Properties *)

IsEmbedPost(r) == r.method = "POST" /\ r.path \in {"/embed", "/embed_batch"}

Done(id) == reqs[id].state = "done"

\* The request id is answered in this step.
AnsweredNow(id) == reqs[id].state # "done" /\ reqs'[id].state = "done"

Unavailable == Response(503, "Model not loaded", NoBody)

\* C1: a POST /embed or POST /embed_batch request with a valid body that is
\* handled while model is None is answered 503 "Model not loaded" in that
\* step, and model.encode has not been called for it.
C1_UnloadedGives503 ==
    [][\A id \in Ids :
          (/\ IsPending(id)
           /\ IsEmbedPost(reqs[id].req)
           /\ BodyValid(reqs[id].req)
           /\ model = "None"
           /\ reqs'[id] # reqs[id])
          => (/\ reqs'[id].state = "done"
              /\ reqs'[id].resp = Unavailable
              /\ reqs'[id].calls = 0)]_vars

\* Both endpoints have answered 503 with the model absent.
C1_Witness ==
    /\ model = "None"
    /\ \E i \in Ids, j \in Ids :
          /\ reqs[i].req.method = "POST"
          /\ reqs[i].req.path = "/embed" /\ reqs[i].resp = Unavailable
          /\ reqs[j].req.path = "/embed_batch" /\ reqs[j].resp = Unavailable

C3_InferenceErrorGives500 ==
    [][\A id \in Ids :
          (reqs[id].raised = NoExc /\ reqs'[id].raised # NoExc)
          => (/\ reqs'[id].state = "done"
              /\ reqs'[id].resp.status = 500
              /\ reqs'[id].resp.detail = str(reqs'[id].raised)
              /\ reqs'[id].resp.body = NoBody
              /\ phase = "serving" /\ phase' = "serving"
              /\ exitStatus' = "none"
              /\ model' = "loaded"
              /\ LoopFree'
              /\ \A j \in Ids \ {id} : reqs'[j] = reqs[j])]_vars

\* A batch request has failed with 500, and after it the inference of
\* another request is in progress.
C3_Witness ==
    \E id \in Ids, j \in Ids :
        /\ reqs[id].req.path = "/embed_batch"
        /\ reqs[id].raised # NoExc
        /\ reqs[id].resp.status = 500
        /\ j \in Running

\* C4: GET /health is answered 200 with status "healthy" and model_loaded
\* equal to whether model is not None at that moment, and answering it
\* changes nothing but that request.
C4_HealthReflectsModel ==
    [][\A id \in Ids :
          (reqs[id].req.method = "GET" /\ AnsweredNow(id))
          => (/\ reqs'[id].resp =
                    Response(200, "", [status |-> "healthy",
                                       model_loaded |-> model # "None"])
              /\ \A j \in Ids \ {id} : reqs'[j] = reqs[j]
              /\ Len(reqs') = Len(reqs)
              /\ UNCHANGED lifecycle)]_vars

\* A health request has been answered model_loaded false while the model
\* is absent.
C4_Witness ==
    \E id \in Ids :
        /\ reqs[id].req.method = "GET" /\ Done(id)
        /\ reqs[id].resp.body.model_loaded = FALSE
        /\ model = "None"

\* C5: model is None or loaded; it changes only in the one startup load,
\* from None to loaded; no step that touches a request changes it, and once
\* loaded it stays loaded.
C5_ModelWrittenOnce ==
    [][/\ model' \in {"None", "loaded"}
       /\ loads' <= 1
       /\ (model # "None" => model' = model)
       /\ (model' # model => (phase = "loading" /\ loads = 1 /\ reqs = <<>>))
       /\ (reqs' # reqs => model' = model)]_vars

\* The model is loaded and an inference has failed.
C5_Witness ==
    /\ model = "loaded"
    /\ \E id \in Ids : reqs[id].raised # NoExc

\* C6: a POST /embed request whose body lacks text never enters the handler:
\* it is pending or answered 422, with no call of model.encode, whatever the
\* model's state.
C6_MissingFieldGives422 ==
    \A id \in Ids :
        (/\ reqs[id].req.method = "POST"
         /\ reqs[id].req.path = "/embed"
         /\ ~TextInput(reqs[id].req.body))
        => (/\ reqs[id].state \in {"pending", "done"}
            /\ reqs[id].calls = 0
            /\ Done(id) => reqs[id].resp.status = 422)

\* Such a request has been answered while the model is absent.
C6_Witness ==
    \E id \in Ids :
        /\ reqs[id].req.path = "/embed"
        /\ reqs[id].req.method = "POST"
        /\ ~TextInput(reqs[id].req.body)
        /\ reqs[id].resp.status = 422
        /\ model = "None"

\* C7: load_model is entered at most once; if it raised, the process has
\* exited with a failure status, the model is still None, and no request
\* has been received or answered.
C7_LoadFailureIsFatal ==
    /\ loads <= 1
    /\ loadRaised =>
          (/\ phase = "exited"
           /\ exitStatus = "failure"
           /\ loads = 1
           /\ model = "None"
           /\ \A id \in Ids : reqs[id].state = "pending" /\ reqs[id].resp = NoResp)

C7_Witness == loadRaised /\ phase = "exited"

ShutdownPrinted == \E i \in 1..Len(stdout) : stdout[i] = <<"Shutting down gracefully...">>

\* A signal is delivered in this step: to the server's handler, which
\* records it, or to signal_handler, which exits.
SignalReceived ==
    \/ captured' # captured
    \/ (sighandler = "signal_handler" /\ phase # "exited" /\ phase' = "exited")

\* C8: whenever a signal is received, in any state of the running service,
\* the handler in effect is the signal_handler registered at import, and in
\* that step the process prints the shutdown message and exits with status
\* 0, in-flight requests or not.
C8_SignalExitsImmediately ==
    [][SignalReceived
          => (/\ sighandler = "signal_handler"
              /\ phase' = "exited"
              /\ exitStatus' = "0"
              /\ ShutdownPrinted')]_vars

\* C9: every answered preflight from an origin http://localhost:<port> is
\* allowed: 200 with that origin echoed back.
C9_LocalhostOriginsAllowed ==
    \A id \in Ids :
        (/\ Done(id)
         /\ reqs[id].req.method = "OPTIONS"
         /\ IsLocalhostOrigin(reqs[id].req.origin))
        => (/\ reqs[id].resp.status = 200
            /\ reqs[id].resp.allow_origin = reqs[id].req.origin)

\* C10: at most one model.encode call is in progress; while one is, no
\* other request's handling moves, its own request changes only by the
\* call's end (200 or 500), and the process does not leave the serving phase.
C10_InferenceSerialized ==
    [][/\ Cardinality(Running') <= 1
       /\ \A id \in Running :
             /\ \A j \in Ids \ {id} : reqs'[j] = reqs[j]
             /\ reqs'[id] # reqs[id]
                   => (/\ reqs'[id].state = "done"
                       /\ reqs'[id].resp.status \in {200, 500})
             /\ phase' = phase]_vars

\* An inference is in progress while another embedding request waits.
C10_Witness ==
    \E id \in Running, j \in Ids :
        /\ IsPending(j)
        /\ IsEmbedPost(reqs[j].req)
        /\ BodyValid(reqs[j].req)

====
